---- MODULE Spec2Model ----
(***************************************************************************)
(* A Verkle tree over fixed-width keys: an authenticated key-value map in   *)
(* which every node is summarised by a vector commitment over its digest    *)
(* array.  The model follows src/src/{node,tree,vc,utils,kzg}.rs.           *)
(*                                                                          *)
(* Scaling.  The source uses 31-byte stems and arity 256.  The model keeps  *)
(* the algorithms and shrinks the alphabet (Byte) and the stem length       *)
(* (STEM_LEN); every place where the source writes 31, 30 or 32 is written  *)
(* here as STEM_LEN, STEM_LEN - 1 or STEM_LEN + 1.                          *)
(*                                                                          *)
(* Cryptography.  blake3 + reduction (hash_to_field) is a collision-free    *)
(* tagging of its pre-image; a KZG commitment determines the committed      *)
(* vector, and an opening is accepted exactly when it is the witness of     *)
(* that vector at that point for that value (ideal binding).                *)
(*                                                                          *)
(* Arrays are functions over Byte (0-based, like the source); stems and     *)
(* keys are sequences, so source index i is sequence index i + 1.           *)
(***************************************************************************)
EXTENDS Integers, Sequences, FiniteSets, TLC

\* Length of a stem (31 in the source), scaled.
STEM_LEN == 2

\* At most this many distinct keys are ever stored.
MaxKeys == 3

\* One unit of key material; indexes children and slots (0..255 in the source).
Byte == {0, 1}

Stem == [1..STEM_LEN -> Byte]
Key == [1..(STEM_LEN + 1) -> Byte]

\* Byte strings.  raw: literal bytes; ser: the canonical compressed
\* serialisation of a commitment.
Bytes(seq) == [raw |-> seq]

\* The values the clients store.
Values == {Bytes(<<1>>), Bytes(<<2>>)}

None == [kind |-> "None"]

-----------------------------------------------------------------------------
(* utils.rs *)

hash_to_field(bytes) == [pre |-> bytes]

ZERO32 == Bytes([i \in 1..32 |-> 0])

ZERO_CHILD == hash_to_field(ZERO32)

ZERO_VALUE == hash_to_field(Bytes(<<>>))

serialize_compressed(commit) == [ser |-> commit]

digest_commit(commit) == hash_to_field(serialize_compressed(commit))

-----------------------------------------------------------------------------
(* kzg.rs: the vector commitment *)

commit_from_children(children) == [poly |-> children]

open_at(evals, index) ==
    [value |-> evals[index], proof |-> [poly |-> evals, point |-> index]]

verify_at(comm, index, value, proof) ==
    /\ index \in DOMAIN comm.poly
    /\ comm.poly[index] = value
    /\ proof = [poly |-> comm.poly, point |-> index]

-----------------------------------------------------------------------------
(* node.rs *)

split_key(key) == [stem |-> SubSeq(key, 1, STEM_LEN), suf |-> key[STEM_LEN + 1]]

Internal(children, commitments) ==
    [kind |-> "Internal", children |-> children, commitments |-> commitments]

Extension(stem, slots, slot_commitment) ==
    [kind |-> "Extension", stem |-> stem, slots |-> slots,
     slot_commitment |-> slot_commitment]

\* The result of a walk that executed unreachable!, a failed unwrap, an
\* out-of-bounds index or a failed debug assertion.
Panic == [kind |-> "Panic"]

NoChildren == [i \in Byte |-> None]
NoSlots == [i \in Byte |-> None]
ZeroChildDigests == [i \in Byte |-> ZERO_CHILD]
ZeroValueDigests == [i \in Byte |-> ZERO_VALUE]

\* Source indices 0..STEM_LEN-1 where the stems differ.
DiffIndices(old_stem, new_stem) ==
    {i \in 0..(STEM_LEN - 1) : old_stem[i + 1] # new_stem[i + 1]}

\* (Variant: the scan stops one byte early.)
first_diff_index_short(old_stem, new_stem) ==
    IF DiffIndices(old_stem, new_stem) \ {STEM_LEN - 1} = {}
    THEN STEM_LEN
    ELSE CHOOSE i \in DiffIndices(old_stem, new_stem) :
             \A j \in DiffIndices(old_stem, new_stem) : i <= j

first_diff_index(old_stem, new_stem) ==
    IF DiffIndices(old_stem, new_stem) = {}
    THEN STEM_LEN
    ELSE CHOOSE i \in DiffIndices(old_stem, new_stem) :
             \A j \in DiffIndices(old_stem, new_stem) : i <= j

\* (Variant: the old Extension is rebuilt without its slots.)
SplitFork_drop_slots(old_ext, new_stem, d) ==
    Internal([[NoChildren EXCEPT ![old_ext.stem[d + 1]] =
                   Extension(old_ext.stem, NoSlots, ZeroValueDigests)]
                 EXCEPT ![new_stem[d + 1]] =
                   Extension(new_stem, NoSlots, ZeroValueDigests)],
             ZeroChildDigests)

\* (Variant: the relocated Extension is rebuilt with the new stem.)
SplitFork_restemmed(old_ext, new_stem, d) ==
    Internal([[NoChildren EXCEPT ![old_ext.stem[d + 1]] =
                   Extension(new_stem, old_ext.slots, ZeroValueDigests)]
                 EXCEPT ![new_stem[d + 1]] =
                   Extension(new_stem, NoSlots, ZeroValueDigests)],
             ZeroChildDigests)

\* (Variant: the fork holds the fresh Extension only.)
SplitFork_without_old(old_ext, new_stem, d) ==
    Internal([NoChildren EXCEPT ![new_stem[d + 1]] =
                   Extension(new_stem, NoSlots, ZeroValueDigests)],
             ZeroChildDigests)

\* The fork at depth d: the old Extension and a fresh, empty one.
SplitFork(old_ext, new_stem, d) ==
    LET old_idx == old_ext.stem[d + 1]
        new_idx == new_stem[d + 1]
        withOld == [NoChildren EXCEPT ![old_idx] =
                        Extension(old_ext.stem, old_ext.slots, ZeroValueDigests)]
    IN Internal([withOld EXCEPT ![new_idx] =
                        Extension(new_stem, NoSlots, ZeroValueDigests)],
                ZeroChildDigests)

\* (Variant: the fork is built at the starting depth, without the chain.)
SplitChain_no_chain(i, d, old_ext, new_stem) == SplitFork(old_ext, new_stem, i)

\* The loop `for i in start_depth..d` followed by the fork, from depth i on.
RECURSIVE SplitChain(_, _, _, _)
SplitChain(i, d, old_ext, new_stem) ==
    IF i < d
    THEN Internal([NoChildren EXCEPT ![old_ext.stem[i + 1]] =
                        SplitChain(i + 1, d, old_ext, new_stem)],
                  ZeroChildDigests)
    ELSE SplitFork(old_ext, new_stem, d)

\* (Variant: the assertion on the starting depth is strict.)
split_extension_strict_depth(start_depth, old_ext, new_stem) ==
    LET d == first_diff_index(old_ext.stem, new_stem)
    IN IF ~(d < STEM_LEN) \/ old_ext.stem = new_stem \/ ~(start_depth < d)
       THEN Panic
       ELSE SplitChain(start_depth, d, old_ext, new_stem)

\* old_ext is [stem, slots].  The debug assertions abort the call.
split_extension(start_depth, old_ext, new_stem) ==
    LET d == first_diff_index(old_ext.stem, new_stem)
    IN IF ~(d < STEM_LEN) \/ old_ext.stem = new_stem \/ ~(start_depth <= d)
       THEN Panic
       ELSE SplitChain(start_depth, d, old_ext, new_stem)

-----------------------------------------------------------------------------
(* vc.rs: commitment recomputation *)

RECURSIVE compute_commitment(_)

\* Both return [commit, node]: the commitment and the node with its digest
\* array (and those below it) refreshed.
\* (Variant: the digest array of the node is refreshed, the nodes below it
\* are left as they were.)
compute_internal_commitment_shallow(node) ==
    LET child_digests == [i \in Byte |->
                   IF node.children[i] = None THEN ZERO_CHILD
                   ELSE digest_commit(compute_commitment(node.children[i]).commit)]
    IN [commit |-> commit_from_children(child_digests),
        node |-> Internal(node.children, child_digests)]

compute_internal_commitment(node) ==
    LET sub == [i \in Byte |->
                   IF node.children[i] = None THEN None
                   ELSE compute_commitment(node.children[i])]
        child_digests == [i \in Byte |->
                   IF node.children[i] = None THEN ZERO_CHILD
                   ELSE digest_commit(sub[i].commit)]
    IN [commit |-> commit_from_children(child_digests),
        node |-> Internal([i \in Byte |->
                              IF node.children[i] = None THEN None ELSE sub[i].node],
                          child_digests)]

\* (Variant: the digest already held for an occupied slot is reused.)
compute_extension_commitment_cached(node) ==
    LET value_digests == [i \in Byte |->
                   IF node.slots[i] = None THEN ZERO_VALUE
                   ELSE IF node.slot_commitment[i] # ZERO_VALUE
                        THEN node.slot_commitment[i]
                        ELSE hash_to_field(node.slots[i])]
    IN [commit |-> commit_from_children(value_digests),
        node |-> Extension(node.stem, node.slots, value_digests)]

compute_extension_commitment(node) ==
    LET value_digests == [i \in Byte |->
                   IF node.slots[i] = None THEN ZERO_VALUE
                   ELSE hash_to_field(node.slots[i])]
    IN [commit |-> commit_from_children(value_digests),
        node |-> Extension(node.stem, node.slots, value_digests)]

compute_commitment(node) ==
    IF node.kind = "Internal"
    THEN compute_internal_commitment(node)
    ELSE compute_extension_commitment(node)

-----------------------------------------------------------------------------
(* tree.rs *)

\* get at an Extension met inside the loop.  (The variant returns the slot
\* without comparing stems.)
extension_get_any_stem(node, stem, suf) == node.slots[suf]

extension_get(node, stem, suf) ==
    IF node.stem # stem THEN None ELSE node.slots[suf]

\* get: the loop over depths i = 0..STEM_LEN-1, then the check at depth STEM_LEN.
RECURSIVE get_walk(_, _, _, _)
get_walk(node, i, stem, suf) ==
    IF i < STEM_LEN
    THEN CASE node.kind = "None" -> None
           [] node.kind = "Internal" ->
                get_walk(node.children[stem[i + 1]], i + 1, stem, suf)
           [] node.kind = "Extension" -> extension_get(node, stem, suf)
    ELSE IF node.kind = "Extension" /\ node.stem = stem
         THEN node.slots[suf]
         ELSE None

get(tree, key) ==
    get_walk(tree, 0, split_key(key).stem, split_key(key).suf)

\* A fresh Extension holding one value (create_root and the two places of
\* insert that build one).
FreshExtension(stem, suf, value) ==
    Extension(stem, [NoSlots EXCEPT ![suf] = value], ZeroValueDigests)

\* slots[suf] = Some(value) on an Extension.  (The variant keeps a value that
\* is already there.)
store_value_keep_first(node, suf, value) ==
    IF node.slots[suf] = None THEN [node EXCEPT !.slots[suf] = value] ELSE node

store_value(node, suf, value) == [node EXCEPT !.slots[suf] = value]

\* insert, from the node at depth i on; the node as rewritten, or Panic.
RECURSIVE insert_walk(_, _, _, _, _)
insert_walk(node, i, stem, suf, value) ==
    IF i < STEM_LEN
    THEN IF node.kind = "Internal"
         THEN LET idx == stem[i + 1]
              IN IF node.children[idx] = None
                 THEN [node EXCEPT !.children[idx] = FreshExtension(stem, suf, value)]
                 ELSE LET r == insert_walk(node.children[idx], i + 1, stem, suf, value)
                      IN IF r = Panic THEN Panic
                         ELSE [node EXCEPT !.children[idx] = r]
         ELSE \* Extension
              IF node.stem # stem
              THEN LET s == split_extension(i, [stem |-> node.stem, slots |-> node.slots], stem)
                   IN IF s = Panic \/ s.kind # "Internal" THEN Panic
                      ELSE LET idx == stem[i + 1]
                           IN IF s.children[idx] = None THEN Panic
                              ELSE LET r == insert_walk(s.children[idx], i + 1, stem, suf, value)
                                   IN IF r = Panic THEN Panic
                                      ELSE [s EXCEPT !.children[idx] = r]
              ELSE store_value(node, suf, value)
    ELSE CASE node.kind = "Extension" /\ node.stem = stem ->
                store_value(node, suf, value)
           [] node.kind = "Internal" ->
                LET idx == stem[STEM_LEN]
                    child == node.children[idx]
                IN IF child = None
                   THEN [node EXCEPT !.children[idx] = FreshExtension(stem, suf, value)]
                   ELSE IF child.kind = "Extension" /\ child.stem = stem
                        THEN [node EXCEPT !.children[idx] = store_value(child, suf, value)]
                        ELSE Panic
           [] OTHER -> Panic

\* (Variant: an insert over a key that already holds a value returns without
\* recomputing the digests.)
insert_stale_overwrite(tree, key, value) ==
    LET stem == split_key(key).stem
        suf == split_key(key).suf
    IN IF tree = None
       THEN compute_commitment(FreshExtension(stem, suf, value)).node
       ELSE LET r == insert_walk(tree, 0, stem, suf, value)
            IN IF r = Panic THEN Panic
               ELSE IF get(tree, key) # None THEN r
               ELSE compute_commitment(r).node

\* (Variant: the first insert creates an Internal root above the Extension.)
insert_internal_root(tree, key, value) ==
    LET stem == split_key(key).stem
        suf == split_key(key).suf
    IN IF tree = None
       THEN compute_commitment(
                Internal([NoChildren EXCEPT ![stem[1]] = FreshExtension(stem, suf, value)],
                         ZeroChildDigests)).node
       ELSE LET r == insert_walk(tree, 0, stem, suf, value)
            IN IF r = Panic THEN Panic ELSE compute_commitment(r).node

\* The tree after insert(key, value), digests recomputed from the root; Panic
\* when the walk aborts.
insert(tree, key, value) ==
    LET stem == split_key(key).stem
        suf == split_key(key).suf
    IN IF tree = None
       THEN compute_commitment(FreshExtension(stem, suf, value)).node
       ELSE LET r == insert_walk(tree, 0, stem, suf, value)
            IN IF r = Panic THEN Panic ELSE compute_commitment(r).node

\* The root commitment: what compute_commitment returns for the root.
root_commitment(tree) == compute_commitment(tree).commit

InternalStep(parent_commit, index, child_digest, proof) ==
    [kind |-> "Internal", parent_commit |-> parent_commit, index |-> index,
     child_digest |-> child_digest, proof |-> proof]

ExtensionStep(ext_commit, index, proof) ==
    [kind |-> "Extension", ext_commit |-> ext_commit, index |-> index,
     proof |-> proof]

VerkleProof(steps, value) == [kind |-> "Proof", steps |-> steps, value |-> value]

\* The step prove_get pushes for an Internal node, opened at index.
prove_internal_step(node, index) ==
    InternalStep(commit_from_children(node.commitments), index,
                 open_at(node.commitments, index).value,
                 open_at(node.commitments, index).proof)

\* (Variant: the walk stops one level early below an Internal node: the step
\* of the Extension's parent is not kept.)
prove_extension_drop_parent(node, index, suf, steps) ==
    IF node.slots[suf] = None
    THEN Panic
    ELSE VerkleProof(
             Append(SubSeq(steps, 1, Len(steps) - 1),
                    ExtensionStep(commit_from_children(node.slot_commitment), index,
                                  open_at(node.slot_commitment, index).proof)),
             node.slots[suf])

\* The terminal step and the result for an Extension opened at index:
\* slots[suf].clone().unwrap() aborts on an empty slot.
prove_extension(node, index, suf, steps) ==
    IF node.slots[suf] = None
    THEN Panic
    ELSE VerkleProof(
             Append(steps,
                    ExtensionStep(commit_from_children(node.slot_commitment), index,
                                  open_at(node.slot_commitment, index).proof)),
             node.slots[suf])

\* prove_get from the node at depth i on: a proof, None or Panic.  Inside the
\* loop `index` is the stem byte of the current depth, also for an Extension.
\* (Variant: the stem of an Extension met inside the loop is not compared.)
RECURSIVE prove_walk_any_stem(_, _, _, _, _)
prove_walk_any_stem(node, i, stem, suf, steps) ==
    IF i < STEM_LEN
    THEN LET index == stem[i + 1]
         IN IF node.kind = "Internal"
            THEN IF node.children[index] = None
                 THEN None
                 ELSE prove_walk_any_stem(node.children[index], i + 1, stem, suf,
                                          Append(steps, prove_internal_step(node, index)))
            ELSE prove_extension(node, index, suf, steps)
    ELSE IF node.kind = "Extension" /\ node.stem = stem
         THEN prove_extension(node, suf, suf, steps)
         ELSE Panic

RECURSIVE prove_walk(_, _, _, _, _)
prove_walk(node, i, stem, suf, steps) ==
    IF i < STEM_LEN
    THEN LET index == stem[i + 1]
         IN IF node.kind = "Internal"
            THEN IF node.children[index] = None
                 THEN None
                 ELSE prove_walk(node.children[index], i + 1, stem, suf,
                                 Append(steps, prove_internal_step(node, index)))
            ELSE IF node.stem # stem
                 THEN None
                 ELSE prove_extension(node, index, suf, steps)
    ELSE IF node.kind = "Extension" /\ node.stem = stem
         THEN prove_extension(node, suf, suf, steps)
         ELSE Panic

prove_get(tree, key) ==
    IF tree = None
    THEN None
    ELSE prove_walk(tree, 0, split_key(key).stem, split_key(key).suf, <<>>)

IsProof(p) == p.kind = "Proof"

-----------------------------------------------------------------------------
(* vc.rs: verify_proof.  The result is "true", "false" or "panic". *)

step_commit(step) ==
    IF step.kind = "Internal" THEN step.parent_commit ELSE step.ext_commit

\* (Variant: step 0 is not compared with the supplied root commitment.)
link_ok_any_root(i, step, root_commit, expected_digest) ==
    IF i = 0
    THEN TRUE
    ELSE digest_commit(step_commit(step)) = expected_digest

\* Root check for step 0, linkage check for the later steps.
link_ok(i, step, root_commit, expected_digest) ==
    IF i = 0
    THEN step_commit(step) = root_commit
    ELSE digest_commit(step_commit(step)) = expected_digest

\* (Variant: the index of an Internal step is not compared with the stem.)
verify_internal_step_any_index(step, i, stem, len) ==
    IF ~verify_at(step.parent_commit, step.index, step.child_digest, step.proof)
    THEN "false"
    ELSE IF i >= STEM_LEN THEN "panic"
    ELSE IF i = STEM_LEN THEN "false"
    ELSE IF i + 1 = len THEN "false"
    ELSE "next"

\* The checks of an Internal step at position i, in source order: "false",
\* "panic" (stem[i] with i = stem.len()) or "next".
verify_internal_step(step, i, stem, len) ==
    IF ~verify_at(step.parent_commit, step.index, step.child_digest, step.proof)
    THEN "false"
    ELSE IF i >= STEM_LEN THEN "panic"
    ELSE IF step.index # stem[i + 1] THEN "false"
    ELSE IF i = STEM_LEN THEN "false"
    ELSE IF i + 1 = len THEN "false"
    ELSE "next"

\* (Variant: the slot opening is not verified.)
verify_extension_step_no_opening(step, i, suf, value, len) ==
    IF step.index # suf THEN "false"
    ELSE IF i + 1 # len THEN "false"
    ELSE "next"

\* The checks of an Extension step at position i: "false" or "next".
verify_extension_step(step, i, suf, value, len) ==
    IF step.index # suf THEN "false"
    ELSE IF ~verify_at(step.ext_commit, step.index, hash_to_field(value), step.proof)
    THEN "false"
    ELSE IF i + 1 # len THEN "false"
    ELSE "next"

\* (Variant: the loop returns true at the first Extension step that passes
\* its index and opening checks, without looking at the steps after it.)
RECURSIVE verify_loop_stop_at_extension(_, _, _, _, _, _, _)
verify_loop_stop_at_extension(proof, stem, suf, root_commit, i, expected_digest, saw_extension) ==
    IF i = Len(proof.steps)
    THEN "false"
    ELSE LET step == proof.steps[i + 1]
         IN IF ~link_ok(i, step, root_commit, expected_digest)
            THEN "false"
            ELSE IF step.kind = "Internal"
                 THEN LET r == verify_internal_step(step, i, stem, Len(proof.steps))
                      IN IF r = "next"
                         THEN verify_loop_stop_at_extension(
                                  proof, stem, suf, root_commit, i + 1,
                                  step.child_digest, saw_extension)
                         ELSE r
                 ELSE IF verify_extension_step(step, i, suf, proof.value, i + 1) = "next"
                      THEN "true"
                      ELSE "false"

RECURSIVE verify_loop(_, _, _, _, _, _, _)
verify_loop(proof, stem, suf, root_commit, i, expected_digest, saw_extension) ==
    IF i = Len(proof.steps)
    THEN IF saw_extension THEN "true" ELSE "false"
    ELSE LET step == proof.steps[i + 1]
         IN IF ~link_ok(i, step, root_commit, expected_digest)
            THEN "false"
            ELSE IF step.kind = "Internal"
                 THEN LET r == verify_internal_step(step, i, stem, Len(proof.steps))
                      IN IF r = "next"
                         THEN verify_loop(proof, stem, suf, root_commit, i + 1,
                                          step.child_digest, saw_extension)
                         ELSE r
                 ELSE LET r == verify_extension_step(step, i, suf, proof.value,
                                                     Len(proof.steps))
                      IN IF r = "next"
                         THEN verify_loop(proof, stem, suf, root_commit, i + 1,
                                          None, TRUE)
                         ELSE r

\* (Variant: only the terminal step is checked, not the chain above it.)
verify_proof_terminal_only(root_commit, proof, key) ==
    IF Len(proof.steps) = 0 THEN "false"
    ELSE IF Len(proof.steps) > STEM_LEN + 1 THEN "false"
    ELSE LET last == proof.steps[Len(proof.steps)]
         IN IF last.kind # "Extension" THEN "false"
            ELSE IF verify_extension_step(last, Len(proof.steps) - 1, split_key(key).suf,
                                          proof.value, Len(proof.steps)) = "next"
                 THEN "true"
                 ELSE "false"

verify_proof(root_commit, proof, key) ==
    IF Len(proof.steps) = 0 THEN "false"
    ELSE IF Len(proof.steps) > STEM_LEN + 1 THEN "false"
    ELSE verify_loop(proof, split_key(key).stem, split_key(key).suf,
                     root_commit, 0, None, FALSE)

-----------------------------------------------------------------------------
(* The state: the tree, whether an operation aborted, and the reference map *)
(* of the test suite (chaos.rs, `expected`): the last value inserted under  *)
(* each key.                                                                *)

VARIABLES root, panicked, expected

vars == <<root, panicked, expected>>

Inserted == {k \in Key : expected[k] # None}

Init ==
    /\ root = None
    /\ panicked = FALSE
    /\ expected = [k \in Key |-> None]

\* insert(key, value).
Insert(key, value) ==
    /\ ~panicked
    /\ Cardinality(Inserted \cup {key}) <= MaxKeys
    /\ LET t == insert(root, key, value)
       IN IF t = Panic
          THEN /\ panicked' = TRUE
               /\ UNCHANGED root
          ELSE /\ root' = t
               /\ UNCHANGED panicked
    /\ expected' = [expected EXCEPT ![key] = value]

Next == \E key \in Key, value \in Values : Insert(key, value)

Spec == Init /\ [][Next]_vars

\* Value is any byte vector, the empty one included: the same operation with
\* the empty value among its inputs.
AllValues == Values \cup {Bytes(<<>>)}

NextE == \E key \in Key, value \in AllValues : Insert(key, value)

SpecE == Init /\ [][NextE]_vars

-----------------------------------------------------------------------------
\* The first p stem bytes of two keys agree.
SamePrefix(k1, k2, p) == \A j \in 1..p : k1[j] = k2[j]

\* C1: after any sequence of inserts, the proof prove_get(k) returns for an
\* inserted key k verifies for k against the root commitment, at whatever
\* depth the key's Extension sits.
C1_Completeness ==
    \A k \in Inserted :
        /\ IsProof(prove_get(root, k))
        /\ verify_proof(root_commitment(root), prove_get(root, k), k) = "true"

\* C2: the proof prove_get(k) returns, with p Internal steps, is rejected for
\* every other key with the same first p stem bytes and the same suffix.
C2_StemBinding ==
    \A k \in Inserted :
        LET proof == prove_get(root, k)
            R == root_commitment(root)
        IN IsProof(proof) =>
            \A k2 \in Key \ {k} :
                (/\ k2[STEM_LEN + 1] = k[STEM_LEN + 1]
                 /\ SamePrefix(k, k2, Len(proof.steps) - 1))
                => verify_proof(R, proof, k2) # "true"

\* C3: after any sequence of inserts, get(k) is the value of the most recent
\* insert(k, _) for every key inserted at least once; in particular an insert
\* over an existing key makes get return the new value.
C3_RoundTrip ==
    \A k \in Inserted : get(root, k) = expected[k]

\* The tree built from tree by inserting the entries of map under keys once
\* each, in one fixed order of the keys.
RECURSIVE BuildMap(_, _, _)
BuildMap(tree, keys, map) ==
    IF keys = {}
    THEN tree
    ELSE LET k == CHOOSE x \in keys : TRUE
         IN BuildMap(insert(tree, k, map[k]), keys \ {k}, map)

Build(tree, keys) == BuildMap(tree, keys, expected)

\* The tree holding the reference map with key k bound to v instead (to no
\* value when v is None): a tree one insert(k, _) away from the current one.
Before(k, v) ==
    BuildMap(None, {x \in Inserted : x # k \/ v # None},
             [expected EXCEPT ![k] = v])

\* The tree of several stems is the result of an insert that replaced a
\* different value stored under one of its keys.
C3_Witness ==
    /\ root.kind = "Internal"
    /\ \E k \in Inserted : \E v \in Values \ {expected[k]} :
           /\ get(Before(k, v), k) = v
           /\ insert(Before(k, v), k, expected[k]) = root
    /\ \A k \in Inserted : get(root, k) = expected[k]

\* C4: the tree (shape and digest arrays) and its root commitment are
\* determined by the final key-to-value map: every reachable tree equals the
\* one built from its map in one fixed order, whatever the order of the
\* inserts that led to it and however many overwrites occurred.
C4_OrderIndependence ==
    (~panicked /\ root # None) =>
        /\ root = Build(None, Inserted)
        /\ root_commitment(root) = root_commitment(Build(None, Inserted))

\* Three stems under an Internal root, reached by an overwrite.
C4_Witness ==
    /\ \E k \in Inserted : \E v \in Values \ {expected[k]} :
           insert(Before(k, v), k, expected[k]) = root
    /\ Cardinality({split_key(k).stem : k \in Inserted}) = 3
    /\ root = Build(None, Inserted)

\* Byte strings a forger may put in proof.value: the stored values and the
\* pre-images of the two sentinels.
TamperValues == Values \cup {Bytes(<<>>), ZERO32}

WithValue(proof, value) == [proof EXCEPT !.value = value]

\* C5: if verify_proof accepts a proof for key k against the root, the same
\* proof carrying any different value is rejected for k against the root.
C5_ValueTamper ==
    \A k \in Inserted :
        LET proof == prove_get(root, k)
            R == root_commitment(root)
        IN IsProof(proof) =>
            \A k2 \in Key, v1 \in TamperValues :
                verify_proof(R, WithValue(proof, v1), k2) = "true" =>
                    \A v2 \in TamperValues \ {v1} :
                        verify_proof(R, WithValue(proof, v2), k2) = "false"

\* An accepted proof with Internal steps whose tampered copies are rejected.
C5_Witness ==
    \E k \in Inserted :
        /\ IsProof(prove_get(root, k))
        /\ Len(prove_get(root, k).steps) > 1
        /\ verify_proof(root_commitment(root), prove_get(root, k), k) = "true"
        /\ \A v \in TamperValues \ {expected[k]} :
               verify_proof(root_commitment(root),
                            WithValue(prove_get(root, k), v), k) = "false"

\* An Internal step over the commitment of step, opened honestly at index.
AsInternal(step, index) ==
    InternalStep(step_commit(step), index, step_commit(step).poly[index],
                 open_at(step_commit(step).poly, index).proof)

\* steps followed by copies of its last step, up to length n.
RECURSIVE PadTo(_, _)
PadTo(steps, n) ==
    IF Len(steps) >= n THEN steps ELSE PadTo(Append(steps, steps[Len(steps)]), n)

\* Malformed variants of a proof: no steps; more than STEM_LEN + 1 steps; the
\* last step dropped or turned into an Internal step with a valid opening;
\* the Extension step repeated at the end or put in front.
Malformed(proof) ==
    LET steps == proof.steps
        n == Len(steps)
        last == steps[n]
    IN {[proof EXCEPT !.steps = <<>>],
        [proof EXCEPT !.steps = PadTo(steps, STEM_LEN + 2)],
        [proof EXCEPT !.steps = SubSeq(steps, 1, n - 1)],
        [proof EXCEPT !.steps = Append(steps, last)],
        [proof EXCEPT !.steps = <<last>> \o steps]}
       \cup {[proof EXCEPT !.steps = Append(SubSeq(steps, 1, n - 1), AsInternal(last, j))] :
                j \in Byte}

\* C6: verify_proof returns false, and does not abort, for every proof whose
\* steps are empty, longer than STEM_LEN + 1, ending in an Internal step or
\* holding an Extension step before the last position.
C6_MalformedRejected ==
    \A k \in Inserted :
        LET proof == prove_get(root, k)
            R == root_commitment(root)
        IN IsProof(proof) =>
            \A bad \in Malformed(proof), k2 \in Key :
                verify_proof(R, bad, k2) = "false"

\* C7: prove_get(k) returns a proof exactly when get(k) returns a value, and
\* returns absent (without aborting) otherwise.
C7_ProveIffGet ==
    \A k \in Key :
        /\ prove_get(root, k) # Panic
        /\ IsProof(prove_get(root, k)) <=> get(root, k) # None

\* C8: get(k) is absent for every key that was never inserted.
C8_AbsentKeys ==
    \A k \in Key \ Inserted : get(root, k) = None

\* Absent keys of each sort: same stem as a stored key with another suffix,
\* a stem sharing a proper prefix with a stored stem, below an Internal root.
C8_Witness ==
    /\ root.kind = "Internal"
    /\ \E k \in Inserted, k2 \in Key \ Inserted, k3 \in Key \ Inserted :
           /\ split_key(k2).stem = split_key(k).stem
           /\ split_key(k3).stem \notin {split_key(x).stem : x \in Inserted}
           /\ k3[1] = k[1]
           /\ get(root, k2) = None
           /\ get(root, k3) = None

\* C9: insert(k, v) changes the result of get for no key other than k: in
\* every step, each key whose entry in the reference map is untouched (every
\* key but the inserted one) reads the same before and after.
C9_InsertFrame ==
    [][\A k2 \in Key :
          expected'[k2] = expected[k2] => get(root', k2) = get(root, k2)]_vars

\* The depth of the Extension holding stem, or -1.
RECURSIVE DepthOf(_, _, _)
DepthOf(node, i, stem) ==
    IF node.kind = "Extension"
    THEN IF node.stem = stem THEN i ELSE 0 - 1
    ELSE IF node.kind = "Internal" /\ i < STEM_LEN
         THEN DepthOf(node.children[stem[i + 1]], i + 1, stem)
         ELSE 0 - 1

\* Two stored keys share a stem and differ in suffix, and an Extension sits
\* at the deepest level, below a split at the last stem byte.
C9_Witness ==
    /\ \E k \in Inserted, k2 \in Inserted :
           /\ k # k2
           /\ split_key(k).stem = split_key(k2).stem
           /\ get(root, k) = expected[k]
           /\ get(root, k2) = expected[k2]
    /\ \E k \in Inserted : DepthOf(root, 0, split_key(k).stem) = STEM_LEN

\* C10: for two stored keys under distinct stems, whatever the first index at
\* which the stems differ (the last stem byte included) and whichever was
\* inserted first, both values are retrievable and no insert aborted.
C10_SplitCorrect ==
    /\ ~panicked
    /\ \A k1 \in Inserted, k2 \in Inserted :
           split_key(k1).stem # split_key(k2).stem =>
               /\ get(root, k1) = expected[k1]
               /\ get(root, k2) = expected[k2]

\* Stems that first differ at index 0 and stems that first differ at the last
\* stem byte are stored together.
C10_Witness ==
    /\ ~panicked
    /\ \E k1 \in Inserted, k2 \in Inserted, k3 \in Inserted :
           /\ first_diff_index(split_key(k1).stem, split_key(k2).stem) = STEM_LEN - 1
           /\ first_diff_index(split_key(k1).stem, split_key(k3).stem) = 0
           /\ get(root, k1) = expected[k1]
           /\ get(root, k2) = expected[k2]
           /\ get(root, k3) = expected[k3]

\* C11: an insert that replaces the value v held by a key with a different
\* value v' yields a root commitment different from the one before it.
C11_OverwriteSensitivity ==
    [][\A k \in Key :
          (expected[k] # None /\ expected'[k] # expected[k])
          => root_commitment(root') # root_commitment(root)]_vars

\* The tree is the result of replacing a different value under a key whose
\* Extension lies below the root, and its root commitment differs from the
\* one of the tree before.
C11_Witness ==
    \E k \in Inserted : \E v \in Values \ {expected[k]} :
        /\ DepthOf(root, 0, split_key(k).stem) > 0
        /\ get(Before(k, v), k) = v
        /\ insert(Before(k, v), k, expected[k]) = root
        /\ root_commitment(Before(k, v)) # root_commitment(root)

\* C12: an insert under a key for which get is absent, with any value (the
\* empty byte string included), yields a root commitment different from the
\* one before it (an empty tree has none).
C12_NewKeyChangesRoot ==
    [][\A k \in Key :
          (get(root, k) = None /\ expected'[k] # None /\ root # None)
          => root_commitment(root') # root_commitment(root)]_vars

\* C13: a proof obtained before an insert that changes the root commitment is
\* rejected for its key against the new root commitment; and after an
\* insert that replaces the value v1 of key k by a different one, neither the
\* proof obtained before it nor the current proof made to carry v1 verifies
\* for k against the current root commitment.
C13_StaleProofsRejected ==
    [][LET R1 == root_commitment(root)
           R2 == root_commitment(root')
       IN \A k \in Key :
              LET stale == prove_get(root, k)
              IN IsProof(stale) =>
                  /\ R2 # R1 => verify_proof(R2, stale, k) = "false"
                  /\ expected'[k] # expected[k] =>
                         /\ verify_proof(R2, stale, k) = "false"
                         /\ IsProof(prove_get(root', k)) =>
                                verify_proof(R2, WithValue(prove_get(root', k), expected[k]), k)
                                    = "false"]_vars

\* The tree is the result of replacing a different value v under a key k
\* below an Internal root; the proof for k obtained before, carrying v, was
\* accepted against the root commitment before and is rejected now.
C13_Witness ==
    \E k \in Inserted : \E v \in Values \ {expected[k]} :
        LET stale == prove_get(Before(k, v), k)
        IN /\ insert(Before(k, v), k, expected[k]) = root
           /\ IsProof(stale)
           /\ stale.value = v
           /\ Len(stale.steps) > 1
           /\ verify_proof(root_commitment(Before(k, v)), stale, k) = "true"
           /\ verify_proof(root_commitment(root), stale, k) = "false"

\* The proofs prove_get returns for the stored keys.
HonestProofs == {p \in {prove_get(root, k) : k \in Inserted} : IsProof(p)}

\* Commitments a forger may substitute: those of the nodes on the proved
\* paths and those of the two all-sentinel vectors.
TamperCommits(proofs) ==
    UNION {{step_commit(p.steps[i]) : i \in 1..Len(p.steps)} : p \in proofs}
    \cup {commit_from_children(ZeroChildDigests), commit_from_children(ZeroValueDigests)}

\* Field elements a forger may substitute: the digests of those commitments
\* and the two sentinels.
TamperDigests(commits) ==
    {digest_commit(c) : c \in commits} \cup {ZERO_CHILD, ZERO_VALUE}

WithCommit(proof, i, c) ==
    IF proof.steps[i].kind = "Internal"
    THEN [proof EXCEPT !.steps[i].parent_commit = c]
    ELSE [proof EXCEPT !.steps[i].ext_commit = c]

WithChildDigest(proof, i, d) == [proof EXCEPT !.steps[i].child_digest = d]

\* C14: if verify_proof accepts a proof, the proof with the embedded
\* commitment of any one step replaced by a different commitment, or with the
\* child_digest of any Internal step replaced by a different field element,
\* is rejected.
C14_CommitmentTamper ==
    [](LET R == root_commitment(root)
           proofs == HonestProofs
           commits == TamperCommits(proofs)
           digests == TamperDigests(commits)
       IN \A proof \in proofs, k \in Key :
              verify_proof(R, proof, k) = "true" =>
                  \A i \in 1..Len(proof.steps) :
                      /\ \A c \in commits \ {step_commit(proof.steps[i])} :
                             verify_proof(R, WithCommit(proof, i, c), k) = "false"
                      /\ proof.steps[i].kind = "Internal" =>
                             \A d \in digests \ {proof.steps[i].child_digest} :
                                 verify_proof(R, WithChildDigest(proof, i, d), k) = "false")

\* An accepted proof with two Internal steps; it is rejected once the second
\* step carries the commitment of the first, and once the first step carries
\* ZERO_CHILD as child digest.
C14_Witness ==
    \E proof \in HonestProofs, k \in Inserted :
        /\ Len(proof.steps) = STEM_LEN + 1
        /\ verify_proof(root_commitment(root), proof, k) = "true"
        /\ step_commit(proof.steps[1]) # step_commit(proof.steps[2])
        /\ verify_proof(root_commitment(root),
                        WithCommit(proof, 2, step_commit(proof.steps[1])), k) = "false"
        /\ verify_proof(root_commitment(root),
                        WithChildDigest(proof, 1, ZERO_CHILD), k) = "false"

\* Steps a forger may append: the steps of the proved paths, and Internal
\* steps with valid openings over their commitments.
ExtraSteps(proofs) ==
    LET own == UNION {{p.steps[i] : i \in 1..Len(p.steps)} : p \in proofs}
    IN own \cup {AsInternal(s, j) : s \in own, j \in Byte}

\* C15: for every proof accepted for key k against the root commitment, the
\* proof with any further step appended is rejected for k against it.
C15_AppendInvalidates ==
    [](LET R == root_commitment(root)
           proofs == HonestProofs
           extra == ExtraSteps(proofs)
       IN \A proof \in proofs, k \in Key :
              verify_proof(R, proof, k) = "true" =>
                  \A s \in extra :
                      verify_proof(R, [proof EXCEPT !.steps = Append(proof.steps, s)], k)
                          = "false")

\* An accepted proof of two steps and an accepted proof of STEM_LEN + 1 steps,
\* each rejected with a copy of its last step appended.
C15_Witness ==
    \E p1 \in HonestProofs, p2 \in HonestProofs, k1 \in Inserted, k2 \in Inserted :
        /\ Len(p1.steps) = 2
        /\ Len(p2.steps) = STEM_LEN + 1
        /\ verify_proof(root_commitment(root), p1, k1) = "true"
        /\ verify_proof(root_commitment(root), p2, k2) = "true"
        /\ verify_proof(root_commitment(root),
                        [p1 EXCEPT !.steps = Append(p1.steps, p1.steps[2])], k1) = "false"
        /\ verify_proof(root_commitment(root),
                        [p2 EXCEPT !.steps = Append(p2.steps, p2.steps[STEM_LEN + 1])],
                        k2) = "false"

\* Where the walk along stem from the node at depth i ends: the depth and
\* the node met there (an Extension, or None for a missing child).
RECURSIVE Meet(_, _, _)
Meet(node, i, stem) ==
    IF node.kind = "Internal" /\ i < STEM_LEN
    THEN Meet(node.children[stem[i + 1]], i + 1, stem)
    ELSE [depth |-> i, node |-> node]

StoredStems == {split_key(k).stem : k \in Inserted}

\* C16: prove_get returns absent, and does not abort, for every key whose
\* stem is not stored: on the empty tree, where the walk finds no child at
\* the stem byte, and where it finds an Extension with another stem.
C16_ProveAbsentStem ==
    \A k \in Key :
        split_key(k).stem \notin StoredStems => prove_get(root, k) = None

\* For a key k2 with no stored stem the walk ends at an Extension with
\* another stem below an Internal root; in the tree before the last key k
\* was inserted it ended at a missing child; prove_get is absent in both.
C16_Witness ==
    \E k \in Inserted, k2 \in Key :
        /\ split_key(k2).stem \notin StoredStems
        /\ Meet(root, 0, split_key(k2).stem).depth > 0
        /\ Meet(root, 0, split_key(k2).stem).node.kind = "Extension"
        /\ prove_get(root, k2) = None
        /\ Before(k, None) # None
        /\ insert(Before(k, None), k, expected[k]) = root
        /\ Meet(Before(k, None), 0, split_key(k2).stem).node = None
        /\ prove_get(Before(k, None), k2) = None

\* C17: the last step of the proof prove_get(key) returns is an Extension
\* step whose index is the key's suffix and whose opening is the one of the
\* Extension's slot-digest array at that suffix, at whatever depth the
\* Extension is reached.
C17_TerminalStepIndex ==
    \A k \in Key :
        LET proof == prove_get(root, k)
            ext == Meet(root, 0, split_key(k).stem).node
            suf == split_key(k).suf
        IN IsProof(proof) =>
            LET last == proof.steps[Len(proof.steps)]
            IN /\ last.kind = "Extension"
               /\ last.index = suf
               /\ last.proof = open_at(ext.slot_commitment, suf).proof

\* C18: verify_proof accepts a proof for a key only if every Internal step
\* at position i has index stem[i] and passes verify_at, and the last step
\* is an Extension step with index suffix; a proof accepted for key k, with
\* p Internal steps, is rejected for every key that differs from k in the
\* suffix or in one of the first p stem bytes.
C18_KeyBinding ==
    [](LET R == root_commitment(root)
       IN \A proof \in HonestProofs, k \in Key :
              verify_proof(R, proof, k) = "true" =>
                  LET n == Len(proof.steps)
                  IN /\ \A i \in 1..(n - 1) :
                            /\ proof.steps[i].kind = "Internal"
                            /\ proof.steps[i].index = k[i]
                            /\ verify_at(proof.steps[i].parent_commit, proof.steps[i].index,
                                         proof.steps[i].child_digest, proof.steps[i].proof)
                     /\ proof.steps[n].kind = "Extension"
                     /\ proof.steps[n].index = split_key(k).suf
                     /\ \A k2 \in Key :
                            (k2[STEM_LEN + 1] # k[STEM_LEN + 1] \/ ~SamePrefix(k, k2, n - 1))
                            => verify_proof(R, proof, k2) = "false")

\* A proof with STEM_LEN Internal steps accepted for a stored key and
\* rejected for the keys that differ from it in the suffix, in the first
\* stem byte and in the last stem byte.
C18_Witness ==
    \E proof \in HonestProofs, k \in Inserted :
        /\ Len(proof.steps) = STEM_LEN + 1
        /\ verify_proof(root_commitment(root), proof, k) = "true"
        /\ \A j \in {1, STEM_LEN, STEM_LEN + 1} :
               verify_proof(root_commitment(root), proof, [k EXCEPT ![j] = 1 - k[j]])
                   = "false"

\* C19: every proof prove_get returns consists of Internal steps followed by
\* exactly one Extension step; the number of Internal steps is the depth of
\* the key's Extension; the length is at most STEM_LEN + 1; and step 0
\* carries the current root commitment.
C19_ProofShape ==
    \A k \in Key :
        LET proof == prove_get(root, k)
            n == Len(proof.steps)
        IN IsProof(proof) =>
            /\ n >= 1
            /\ n <= STEM_LEN + 1
            /\ \A i \in 1..(n - 1) : proof.steps[i].kind = "Internal"
            /\ proof.steps[n].kind = "Extension"
            /\ n - 1 = DepthOf(root, 0, split_key(k).stem)
            /\ step_commit(proof.steps[1]) = root_commitment(root)

\* Proofs for Extensions at depth 1 and at depth STEM_LEN of one tree, of
\* two and of STEM_LEN + 1 steps, each starting with the root commitment.
C19_Witness ==
    \E k1 \in Inserted, k2 \in Inserted :
        /\ DepthOf(root, 0, split_key(k1).stem) = 1
        /\ DepthOf(root, 0, split_key(k2).stem) = STEM_LEN
        /\ IsProof(prove_get(root, k1))
        /\ IsProof(prove_get(root, k2))
        /\ Len(prove_get(root, k1).steps) = 2
        /\ Len(prove_get(root, k2).steps) = STEM_LEN + 1
        /\ prove_get(root, k2).steps[STEM_LEN + 1].kind = "Extension"
        /\ step_commit(prove_get(root, k1).steps[1]) = root_commitment(root)
        /\ step_commit(prove_get(root, k2).steps[1]) = root_commitment(root)

\* The node at depth n on the path of stem, from the node at depth i.
RECURSIVE NodeAt(_, _, _, _)
NodeAt(node, i, n, stem) ==
    IF i = n THEN node
    ELSE IF node.kind # "Internal" THEN None
    ELSE NodeAt(node.children[stem[i + 1]], i + 1, n, stem)

ChildrenOf(node) == {b \in Byte : node.children[b] # None}

\* In tree, the path of stem S holds single-child Internal nodes at depths
\* d0..d-1 and at depth d an Internal node with two children: the Extension
\* old with its slots, and an Extension with stem S holding value at suf only.
SplitShape(tree, S, suf, value, old, d0, d) ==
    /\ \A i \in d0..(d - 1) :
           /\ NodeAt(tree, 0, i, S).kind = "Internal"
           /\ ChildrenOf(NodeAt(tree, 0, i, S)) = {S[i + 1]}
    /\ LET fork == NodeAt(tree, 0, d, S)
       IN /\ fork.kind = "Internal"
          /\ S[d + 1] # old.stem[d + 1]
          /\ ChildrenOf(fork) = {S[d + 1], old.stem[d + 1]}
          /\ fork.children[old.stem[d + 1]].kind = "Extension"
          /\ fork.children[old.stem[d + 1]].stem = old.stem
          /\ fork.children[old.stem[d + 1]].slots = old.slots
          /\ fork.children[S[d + 1]].kind = "Extension"
          /\ fork.children[S[d + 1]].stem = S
          /\ fork.children[S[d + 1]].slots = [NoSlots EXCEPT ![suf] = value]

\* C20: when the insert of a key with stem S meets an Extension with another
\* stem S2 at depth d0, and d is the first index where S and S2 differ, the
\* tree after it holds in place of that Extension a chain of single-child
\* Internal nodes at depths d0..d-1 (none when d = d0) and at depth d an
\* Internal node with exactly two children: the original Extension, slots
\* unchanged, at S2[d], and a new Extension with stem S whose only occupied
\* slot is the inserted suffix, at S[d].
C20_SplitStructure ==
    [][\A k \in Key :
          (root # None /\ expected[k] = None /\ expected'[k] # None) =>
              LET S == split_key(k).stem
                  met == Meet(root, 0, S)
              IN (met.node.kind = "Extension" /\ met.node.stem # S) =>
                     SplitShape(root', S, split_key(k).suf, expected'[k], met.node,
                                met.depth, first_diff_index(S, met.node.stem))]_vars

\* The tree is the result of inserting a key k whose stem met, at the root,
\* an Extension with which it shares the first stem byte: a chain of one
\* Internal node above the fork.
C20_Witness ==
    \E k \in Inserted :
        LET S == split_key(k).stem
            met == Meet(Before(k, None), 0, S)
        IN /\ Before(k, None) # None
           /\ insert(Before(k, None), k, expected[k]) = root
           /\ met.node.kind = "Extension"
           /\ met.node.stem # S
           /\ met.depth < first_diff_index(S, met.node.stem)
           /\ SplitShape(root, S, split_key(k).suf, expected[k], met.node,
                         met.depth, first_diff_index(S, met.node.stem))

\* Internal nodes lie at depths 0..STEM_LEN-1 and Extensions at depths
\* 0..STEM_LEN, from the node at depth i down.
RECURSIVE DepthsInRange(_, _)
DepthsInRange(node, i) ==
    CASE node.kind = "None" -> TRUE
      [] node.kind = "Extension" -> i <= STEM_LEN
      [] node.kind = "Internal" ->
            /\ i < STEM_LEN
            /\ \A b \in Byte : DepthsInRange(node.children[b], i + 1)
      [] OTHER -> FALSE

\* C21: no insert reaches a fatal branch (an unreachable! of insert or a
\* failed assertion of split_extension), whatever the sequence of inserts;
\* Internal nodes occur only at depths 0..STEM_LEN-1 and Extensions only at
\* depths 0..STEM_LEN.
C21_NoFatalBranch ==
    /\ ~panicked
    /\ DepthsInRange(root, 0)

\* No insert aborted, and the tree holds an Extension at depth STEM_LEN below
\* a split at the last stem byte and one at depth 1 below a split at byte 0.
C21_Witness ==
    /\ ~panicked
    /\ DepthsInRange(root, 0)
    /\ \E k1 \in Inserted, k2 \in Inserted :
           /\ DepthOf(root, 0, split_key(k1).stem) = STEM_LEN
           /\ DepthOf(root, 0, split_key(k2).stem) = 1
           /\ NodeAt(root, 0, STEM_LEN - 1, split_key(k1).stem).kind = "Internal"

\* Below the node at depth i reached by the child indices path, the first
\* bytes of every Extension's stem are the child indices leading to it.
RECURSIVE PathPrefix(_, _, _)
PathPrefix(node, i, path) ==
    CASE node.kind = "Extension" -> SubSeq(node.stem, 1, i) = path
      [] node.kind = "Internal" ->
            \A b \in Byte : PathPrefix(node.children[b], i + 1, Append(path, b))
      [] OTHER -> TRUE

\* C22: after any sequence of inserts, every Extension at depth d has a stem
\* whose first d bytes are the child indices on the path from the root to it.
C22_PathPrefix == PathPrefix(root, 0, <<>>)

\* Extensions at depth 1 and at depth STEM_LEN, each below its stem's path.
C22_Witness ==
    /\ PathPrefix(root, 0, <<>>)
    /\ \E k1 \in Inserted, k2 \in Inserted :
           /\ NodeAt(root, 0, STEM_LEN, split_key(k1).stem).kind = "Extension"
           /\ NodeAt(root, 0, STEM_LEN, split_key(k1).stem).stem = split_key(k1).stem
           /\ NodeAt(root, 0, 1, split_key(k2).stem).kind = "Extension"
           /\ NodeAt(root, 0, 1, split_key(k2).stem).stem = split_key(k2).stem

\* The Extensions below a node, each named by the child indices leading to
\* it, and the set of their stems.
RECURSIVE ExtensionPaths(_, _)
ExtensionPaths(node, path) ==
    CASE node.kind = "Extension" -> {path}
      [] node.kind = "Internal" ->
            UNION {ExtensionPaths(node.children[b], Append(path, b)) : b \in Byte}
      [] OTHER -> {}

ExtensionCount(node) == Cardinality(ExtensionPaths(node, <<>>))

RECURSIVE ExtensionStems(_)
ExtensionStems(node) ==
    CASE node.kind = "Extension" -> {node.stem}
      [] node.kind = "Internal" ->
            UNION {ExtensionStems(node.children[b]) : b \in Byte}
      [] OTHER -> {}

\* C23: after any sequence of inserts, no two Extensions of the tree have
\* the same stem, and the stems of the Extensions are exactly the stems of
\* the inserted keys.
C23_StemUniqueness ==
    /\ ExtensionCount(root) = Cardinality(ExtensionStems(root))
    /\ ExtensionStems(root) = StoredStems

\* Three Extensions with three stems, those of the three inserted keys.
C23_Witness ==
    /\ ExtensionCount(root) = 3
    /\ Cardinality(ExtensionStems(root)) = 3
    /\ ExtensionStems(root) = StoredStems
    /\ Cardinality(Inserted) = 3

\* The digest array stored in every node from this one down is the one
\* recomputed from its children: the digest of each child's commitment over
\* the child's stored array (ZERO_CHILD without child), the hash of each
\* slot's value (ZERO_VALUE for an empty slot).
RECURSIVE DigestsFresh(_)
DigestsFresh(node) ==
    CASE node.kind = "Extension" ->
            \A i \in Byte :
                node.slot_commitment[i] =
                    IF node.slots[i] = None THEN ZERO_VALUE
                    ELSE hash_to_field(node.slots[i])
      [] node.kind = "Internal" ->
            \A i \in Byte :
                IF node.children[i] = None
                THEN node.commitments[i] = ZERO_CHILD
                ELSE /\ DigestsFresh(node.children[i])
                     /\ node.commitments[i] =
                            digest_commit(commit_from_children(
                                IF node.children[i].kind = "Internal"
                                THEN node.children[i].commitments
                                ELSE node.children[i].slot_commitment))
      [] OTHER -> TRUE

\* C24: after every insert, the digest array stored in each node equals the
\* one recomputed from its current children, the nodes created or moved by
\* a split included.
C24_DigestFreshness == DigestsFresh(root)

\* The tree is the result of an insert that split the root Extension with a
\* chain above the fork, and all its digest arrays are fresh.
C24_Witness ==
    /\ DigestsFresh(root)
    /\ \E k \in Inserted :
           /\ Before(k, None) # None
           /\ Before(k, None).kind = "Extension"
           /\ Before(k, None).stem # split_key(k).stem
           /\ insert(Before(k, None), k, expected[k]) = root
           /\ DepthOf(root, 0, split_key(k).stem) = STEM_LEN

\* The digest array a node commits to.
DigestArray(node) ==
    IF node.kind = "Internal" THEN node.commitments ELSE node.slot_commitment

\* The Internal steps, honestly opened, for the first n nodes on the path of
\* stem (all Internal).
RECURSIVE PathSteps(_, _, _)
PathSteps(tree, n, stem) ==
    IF n = 0 THEN <<>>
    ELSE Append(PathSteps(tree, n - 1, stem),
                prove_internal_step(NodeAt(tree, 0, n - 1, stem), stem[n]))

\* Byte strings a forger may claim as value: the stored values, the
\* pre-images of the two sentinels, and the serialized commitments of the
\* children of node.
ForgedValues(node) ==
    TamperValues
    \cup (IF node.kind = "Internal"
          THEN {serialize_compressed(commit_from_children(DigestArray(node.children[b]))) :
                   b \in ChildrenOf(node)}
          ELSE {})

\* Proofs a forger can assemble for a key from the tree: the honest Internal
\* steps down to any node on the key's path, then an Extension step over
\* that node's digest array (an Internal node's array included) with a valid
\* opening at the key's suffix, carrying any value.
ForgedProofs(tree, key) ==
    LET stem == split_key(key).stem
        suf == split_key(key).suf
        depths == {n \in 0..STEM_LEN : NodeAt(tree, 0, n, stem) # None}
    IN UNION {
         {VerkleProof(
              Append(PathSteps(tree, n, stem),
                     ExtensionStep(commit_from_children(DigestArray(NodeAt(tree, 0, n, stem))),
                                   suf,
                                   open_at(DigestArray(NodeAt(tree, 0, n, stem)), suf).proof)),
              v) : v \in ForgedValues(NodeAt(tree, 0, n, stem))} : n \in depths}

\* C25: if verify_proof accepts any proof whatsoever for a key against the
\* root commitment, carrying any byte string as value, then get of that key
\* is present and equals the proof's value.
C25_Soundness ==
    root # None =>
        \A k \in Key :
            \A proof \in HonestProofs \cup ForgedProofs(root, k) :
                verify_proof(root_commitment(root), proof, k) = "true"
                => get(root, k) = proof.value

\* Every Internal node from this one down has a child and at least two
\* Extensions below it.
RECURSIVE InternalsBranch(_)
InternalsBranch(node) ==
    node.kind = "Internal" =>
        /\ ChildrenOf(node) # {}
        /\ ExtensionCount(node) >= 2
        /\ \A b \in Byte : InternalsBranch(node.children[b])

\* The smallest depth at which the path of stem S is shared with no other
\* stored stem.
SeparationDepth(S) ==
    CHOOSE n \in 0..STEM_LEN :
        /\ \A S2 \in StoredStems \ {S} : SubSeq(S2, 1, n) # SubSeq(S, 1, n)
        /\ \A m \in 0..(n - 1) :
               \E S2 \in StoredStems \ {S} : SubSeq(S2, 1, m) = SubSeq(S, 1, m)

CanonicalShape(tree) ==
    /\ tree.kind = "Extension" <=> Cardinality(StoredStems) = 1
    /\ tree.kind = "Internal" <=> Cardinality(StoredStems) > 1
    /\ InternalsBranch(tree)
    /\ \A S \in StoredStems : DepthOf(tree, 0, S) = SeparationDepth(S)

\* C26: after any sequence of inserts the root is an Extension exactly when
\* one distinct stem has been inserted and an Internal node otherwise, and
\* an Internal root never turns back into an Extension; every Internal node
\* has a child and at least two Extensions below it; each Extension sits at
\* the smallest depth that separates its stem from the other stored stems.
C26_CanonicalShape ==
    /\ [](CanonicalShape(root))
    /\ [][root.kind = "Internal" => root'.kind = "Internal"]_vars

\* Under an Internal root, an Extension at depth 1 and Extensions at depth
\* STEM_LEN, each at the depth where its stem separates from the others.
C26_Witness ==
    /\ CanonicalShape(root)
    /\ root.kind = "Internal"
    /\ \E S1 \in StoredStems, S2 \in StoredStems :
           /\ DepthOf(root, 0, S1) = 1
           /\ DepthOf(root, 0, S2) = STEM_LEN
           /\ SeparationDepth(S1) = 1
           /\ SeparationDepth(S2) = STEM_LEN

\* The key-to-value maps of at most MaxKeys keys with values from vals, and
\* the tree built by inserting the entries of one.
MapsOver(vals) ==
    {m \in [Key -> vals \cup {None}] :
        Cardinality({k \in Key : m[k] # None}) <= MaxKeys}

TreeOf(m) == BuildMap(None, {k \in Key : m[k] # None}, m)

\* The tree and every non-empty tree built by inserts of values from vals
\* that differs from it in the result of get for some key have different
\* root commitments.
BindsAgainst(vals) ==
    root # None =>
        \A m \in MapsOver(vals) :
            (/\ TreeOf(m) # None
             /\ \E k \in Key : get(TreeOf(m), k) # get(root, k))
            => root_commitment(TreeOf(m)) # root_commitment(root)

\* C27: two trees built by sequences of inserts whose get results differ on
\* some key (present versus absent, or different values) have different
\* root commitments.
C27_RootBinding == BindsAgainst(AllValues)

====
